---------------------------- MODULE Spec2Model ----------------------------
(***************************************************************************)
(* Guessy-Wordy: the speech-result adjudication pipeline.                  *)
(*                                                                         *)
(* The model covers the game controller (IndexPage, in its two versions:   *)
(* the shuffle-once version and the version whose effect re-shuffles),     *)
(* the Web Speech recognition component that calls the controller's        *)
(* handleSpeechResult through its onResult prop, and the homophone table.  *)
(*                                                                         *)
(* React is modelled as follows.  An event handler runs to completion,     *)
(* its state updates are batched, the component re-renders and the         *)
(* effects of that render run, all within the action of the event.         *)
(* Values a handler reads from its render (the closure) are kept apart     *)
(* from values it reads through a ref or a functional update: a            *)
(* recognizer's callbacks keep the closure of the render in which the      *)
(* microphone button was pressed (the field snap of a recognizer).         *)
(* Timers and the recognizer's events are untimed.                         *)
(***************************************************************************)
EXTENDS Integers, Sequences, FiniteSets, TLC

\* ------------------------------------------------------------------ bounds
\* recognizer instances created over a run (presses of the microphone button)
MaxSessions == 2
\* games started over a run (each game mounts the component anew)
MaxGames == 2
\* onresult events one recognizer delivers
MaxResults == 2
\* presses of the Skip button over a run
MaxSkips == 1
\* the words of one transcript and the ranked alternatives of one result
MaxTokens == 2
MaxAlternatives == 2

\* ---------------------------------------------------------------- helpers
Range(f) == {f[x] : x \in DOMAIN f}

\* a JavaScript object used as a map word -> count
EmptyMap == << >>
Get(m, w) == IF w \in DOMAIN m THEN m[w] ELSE 0
\* a counter update that adds to the stored count instead of replacing it
PutAdding(m, w, n) ==
  [x \in (DOMAIN m) \cup {w} |-> IF x = w THEN Get(m, w) + n ELSE m[x]]
Put(m, w, n) == [x \in (DOMAIN m) \cup {w} |-> IF x = w THEN n ELSE m[x]]
Del(m, w) == [x \in (DOMAIN m) \ {w} |-> m[x]]

\* array[index] with a 0-based index; HasAt is "the element is not undefined"
HasAt(list, i) == i >= 0 /\ i < Len(list)
At(list, i) == list[i + 1]

\* all orders of a set, as sequences without repetition
Orders(S) ==
  {p \in [1..Cardinality(S) -> S] : \A i, j \in 1..Cardinality(S) : p[i] = p[j] => i = j}

\* ------------------------------------------------------- homophone table
HOMONYM_GROUPS ==
  << <<"to", "two", "too">>,
     <<"there", "their", "they're">>,
     <<"your", "you're">>,
     <<"know", "no">>,
     <<"one", "won">>,
     <<"buy", "by", "bye">>,
     <<"which", "witch">>,
     <<"four", "for", "fore">>,
     <<"were", "we're">>,
     <<"an", "ann", "anne">>,
     <<"with", "wiz">>,
     <<"he", "hey">> >>

\* String.prototype.toLowerCase on the tokens of the model's vocabulary
toLowerCase(t) ==
  CASE t = "Too" -> "too"
    [] t = "TO" -> "to"
    [] t = "Cat." -> "cat."
    [] t = "Hat" -> "hat"
    [] t = "To" -> "to"
    [] t = "TOO" -> "too"
    [] t = "Two" -> "two"
    [] t = "TWO" -> "two"
    [] t = "There" -> "there"
    [] t = "THEIR" -> "their"
    [] t = "They're" -> "they're"
    [] t = "KNOW" -> "know"
    [] t = "No" -> "no"
    [] t = "Cat" -> "cat"
    [] OTHER -> t

\* replace(/[.,!?]/g, '') on the tokens of the model's vocabulary
stripPunctuation(t) ==
  CASE t = "cat." -> "cat"
    [] t = "Cat." -> "Cat"
    [] t = "to!" -> "to"
    [] OTHER -> t

\* a comparison that lower-cases its second argument only
areHomonymsSecondLowered(word1, word2) ==
  LET normalizedWord2 == toLowerCase(word2)
  IN IF word1 = normalizedWord2 THEN FALSE
     ELSE \E g \in 1..Len(HOMONYM_GROUPS) :
            /\ word1 \in Range(HOMONYM_GROUPS[g])
            /\ normalizedWord2 \in Range(HOMONYM_GROUPS[g])

\* a comparison that accepts two grouped words of different groups
areHomonymsAnyGroup(word1, word2) ==
  LET normalizedWord1 == toLowerCase(word1)
      normalizedWord2 == toLowerCase(word2)
  IN IF normalizedWord1 = normalizedWord2 THEN FALSE
     ELSE /\ \E g \in 1..Len(HOMONYM_GROUPS) : normalizedWord1 \in Range(HOMONYM_GROUPS[g])
          /\ \E g \in 1..Len(HOMONYM_GROUPS) : normalizedWord2 \in Range(HOMONYM_GROUPS[g])

areHomonyms(word1, word2) ==
  LET normalizedWord1 == toLowerCase(word1)
      normalizedWord2 == toLowerCase(word2)
  IN IF normalizedWord1 = normalizedWord2 THEN FALSE
     ELSE \E g \in 1..Len(HOMONYM_GROUPS) :
            /\ normalizedWord1 \in Range(HOMONYM_GROUPS[g])
            /\ normalizedWord2 \in Range(HOMONYM_GROUPS[g])

\* a lookup that returns the whole group, the word itself included
getHomonymsWithSelf(word) ==
  LET normalizedWord == toLowerCase(word)
      found == {g \in 1..Len(HOMONYM_GROUPS) : normalizedWord \in Range(HOMONYM_GROUPS[g])}
  IN IF found = {} THEN << >>
     ELSE HOMONYM_GROUPS[CHOOSE g \in found : \A h \in found : g <= h]

\* getHomonyms: find takes the first group that includes the lower-cased word
getHomonyms(word) ==
  LET normalizedWord == toLowerCase(word)
      found == {g \in 1..Len(HOMONYM_GROUPS) : normalizedWord \in Range(HOMONYM_GROUPS[g])}
  IN IF found = {} THEN << >>
     ELSE SelectSeq(HOMONYM_GROUPS[CHOOSE g \in found : \A h \in found : g <= h],
                    LAMBDA w : w # normalizedWord)

\* group.words.forEach(word => acc[word] = baseWord), from the i-th word on
RECURSIVE MapWords(_, _, _)
MapWords(acc, group, i) ==
  IF i > Len(group) THEN acc
  ELSE MapWords(Put(acc, group[i], group[1]), group, i + 1)

\* HOMONYM_GROUPS.reduce(..., {}), from the g-th group on
RECURSIVE MapGroups(_, _)
MapGroups(acc, g) ==
  IF g > Len(HOMONYM_GROUPS) THEN acc
  ELSE MapGroups(MapWords(acc, HOMONYM_GROUPS[g], 1), g + 1)

\* a table that maps every spelling to itself
IdentityMap ==
  [w \in UNION {Range(HOMONYM_GROUPS[g]) : g \in 1..Len(HOMONYM_GROUPS)} |-> w]

HOMOPHONE_MAP == MapGroups(EmptyMap, 1)

\* HOMOPHONE_MAP[word]: the one-element list of the value, or the empty list
\* for undefined
Lookup(word) ==
  IF word \in DOMAIN HOMOPHONE_MAP THEN <<HOMOPHONE_MAP[word]>> ELSE << >>

\* ---------------------------------------------------------- the word list
\* '@/data/words': the static list the games draw from (text only), here a
\* list of two words, one with homophones and one without
words == <<"to", "cat">>
WordSet == Range(words)


\* ------------------------------------------------------- match evaluation
\* A transcript is the sequence of its whitespace-separated tokens.
\* An alternative is [transcript, confidence]; confidence is in percent.
\* normalizeWord of the shuffle-once controller
normalizeWord(word) == stripPunctuation(toLowerCase(word))

\* a transcript normalized, or lowercased, token by token
normalizeWords(q) == [i \in DOMAIN q |-> normalizeWord(q[i])]
lowerCaseWords(q) == [i \in DOMAIN q |-> toLowerCase(q[i])]

\* the candidate words: tokens of the transcript and of every alternative
\* a candidate set that leaves out the alternatives the log leaves out
allPossibleWordsOnceConfident(transcript, alternatives) ==
  {normalizeWord(transcript[i]) : i \in DOMAIN transcript}
    \cup UNION {{normalizeWord(alternatives[k].transcript[i]) :
                   i \in DOMAIN alternatives[k].transcript} :
                 k \in {j \in DOMAIN alternatives : alternatives[j].confidence > 10}}

allPossibleWordsOnce(transcript, alternatives) ==
  {normalizeWord(transcript[i]) : i \in DOMAIN transcript}
    \cup UNION {{normalizeWord(alternatives[k].transcript[i]) :
                   i \in DOMAIN alternatives[k].transcript} : k \in DOMAIN alternatives}

allPossibleWordsReshuffle(transcript, alternatives) ==
  {toLowerCase(transcript[i]) : i \in DOMAIN transcript}
    \cup UNION {{toLowerCase(alternatives[k].transcript[i]) :
                   i \in DOMAIN alternatives[k].transcript} : k \in DOMAIN alternatives}

isCorrectOnce(transcript, alternatives, text) ==
  LET targetWord == normalizeWord(text)
  IN \E word \in allPossibleWordsOnce(transcript, alternatives) :
       word = targetWord \/ areHomonyms(word, targetWord)

isCorrectReshuffle(transcript, alternatives, text) ==
  LET targetWord == toLowerCase(text)
  IN \E word \in allPossibleWordsReshuffle(transcript, alternatives) :
       word = targetWord \/ areHomonyms(word, targetWord)

\* the possibilities of a log entry: the alternatives with confidence > 0.1
RECURSIVE FilterConfident(_)
FilterConfident(alternatives) ==
  IF alternatives = << >> THEN << >>
  ELSE IF Head(alternatives).confidence > 10
       THEN <<Head(alternatives)>> \o FilterConfident(Tail(alternatives))
       ELSE FilterConfident(Tail(alternatives))

possibilitiesOnce(alternatives) ==
  LET kept == FilterConfident(alternatives)
  IN [i \in DOMAIN kept |->
        [word |-> normalizeWords(kept[i].transcript),
         confidence |-> kept[i].confidence]]

possibilitiesReshuffle(alternatives) ==
  LET kept == FilterConfident(alternatives)
  IN [i \in DOMAIN kept |->
        [word |-> kept[i].transcript, confidence |-> kept[i].confidence]]

\* ------------------------------------------------- the game controller
\* The controller's handlers as functions on a record c of the page's state
\* and refs (c is what the batched updates of the running handler have
\* produced so far).  s is the closure of the handler: the render whose
\* values it reads directly.  c.usedTouched records that setUsedWords was
\* called, which gives usedWords a new identity.

endGame(c) == [c EXCEPT !.gameActive = FALSE, !.gameOver = TRUE]

\* moveToNextWord of the shuffle-once controller
moveToNextWordOnce(c, s) ==
  IF ~HasAt(s.shuffledWords, s.currentWordIndex) THEN c
  ELSE LET currentWord == At(s.shuffledWords, s.currentWordIndex)
           c1 == [c EXCEPT !.usedWords = @ \cup {currentWord},
                           !.usedTouched = TRUE,
                           !.incorrectAttempts = Del(@, currentWord)]
           nextIndex == s.currentWordIndex + 1
       IN IF nextIndex >= Len(s.shuffledWords) THEN endGame(c1)
          ELSE [c1 EXCEPT !.currentWordIndex = nextIndex]

\* moveToNextWord of the re-shuffling controller
moveToNextWordReshuffle(c, s) ==
  LET currentWord == At(s.shuffledWords, s.currentWordIndex)
      nextIndex == s.currentWordIndex + 1
      isLastWord == nextIndex >= Len(s.shuffledWords)
      c1 == [c EXCEPT !.usedWords = s.usedWords \cup {currentWord},
                      !.usedTouched = TRUE]
  IN IF ~isLastWord THEN [c1 EXCEPT !.currentWordIndex = nextIndex]
     ELSE endGame(c1)

moveToNextWord(v, c, s) ==
  IF v = "once" THEN moveToNextWordOnce(c, s) ELSE moveToNextWordReshuffle(c, s)

\* an evaluation without the exact comparison
isCorrectHomonymsOnly(v, transcript, alternatives, text) ==
  IF v = "once"
  THEN \E word \in allPossibleWordsOnce(transcript, alternatives) :
         areHomonyms(word, normalizeWord(text))
  ELSE \E word \in allPossibleWordsReshuffle(transcript, alternatives) :
         areHomonyms(word, toLowerCase(text))

\* an evaluation without the homophone comparison
isCorrectExactOnly(v, transcript, alternatives, text) ==
  IF v = "once"
  THEN normalizeWord(text) \in allPossibleWordsOnce(transcript, alternatives)
  ELSE toLowerCase(text) \in allPossibleWordsReshuffle(transcript, alternatives)

\* an evaluation that accepts any word of the game's list
isCorrectAnyListed(v, transcript, alternatives, text) ==
  IF v = "once"
  THEN allPossibleWordsOnce(transcript, alternatives) \cap WordSet # {}
  ELSE allPossibleWordsReshuffle(transcript, alternatives) \cap WordSet # {}

allPossibleWordsFor(v, transcript, alternatives) ==
  IF v = "once" THEN allPossibleWordsOnce(transcript, alternatives)
  ELSE allPossibleWordsReshuffle(transcript, alternatives)

isCorrectFor(v, transcript, alternatives, text) ==
  IF v = "once" THEN isCorrectOnce(transcript, alternatives, text)
  ELSE isCorrectReshuffle(transcript, alternatives, text)

possibilitiesFor(v, alternatives) ==
  IF v = "once" THEN possibilitiesOnce(alternatives)
  ELSE possibilitiesReshuffle(alternatives)

\* the attempt number a result is logged with
attemptNumberOf(currentAttempts) == currentAttempts + 1

\* a handler that does not consult the in-flight ref
refGuardNever(c) == FALSE

\* the guard at the top of handleSpeechResult: a result that arrives while the
\* in-flight ref is set is dropped
refGuardDrops(c) == c.isProcessingAttemptRef

\* the settle timer started after an incorrect answer
startUnlockTimer(c) == [c EXCEPT !.unlockPending = TRUE]

\* a handler that returns without releasing the in-flight guard
noCurrentWordLocked(c) == c

\* the branch of handleSpeechResult for a missing current word: the guard is
\* released and the handler returns
noCurrentWord(c) ==
  [c EXCEPT !.isProcessingAttempt = FALSE, !.isProcessingAttemptRef = FALSE]

handleSpeechResult(v, c, s, transcript, alternatives) ==
  IF ~s.gameActive \/ s.gameOver THEN c
  ELSE IF refGuardDrops(c) THEN c
  ELSE
    LET c1 == [c EXCEPT !.isProcessingAttemptRef = TRUE] IN
    IF s.isProcessingAttempt THEN c1
    ELSE IF ~HasAt(s.shuffledWords, s.currentWordIndex)
    THEN noCurrentWord(c1)
    ELSE
      LET currentWord == At(s.shuffledWords, s.currentWordIndex)
          currentAttempts == Get(s.incorrectAttempts, currentWord)
          released == [c1 EXCEPT !.isProcessingAttempt = FALSE,
                                 !.isProcessingAttemptRef = FALSE]
      IN
      IF currentAttempts >= 2 THEN moveToNextWord(v, released, s)
      ELSE
        LET isCorrect == isCorrectFor(v, transcript, alternatives, currentWord)
            attemptNumber == attemptNumberOf(currentAttempts)
            logEntry == [word |-> currentWord,
                         userAnswer |-> transcript,
                         isCorrect |-> isCorrect,
                         attemptNumber |-> attemptNumber,
                         possibilities |-> possibilitiesFor(v, alternatives)]
        IN
        IF attemptNumber > 2 THEN released
        ELSE
          LET c2 == [c1 EXCEPT !.gameLog = Append(@, logEntry),
                               !.isListening = FALSE,
                               !.isProcessing = FALSE]
          IN
          IF isCorrect
          THEN [moveToNextWord(v, c2, s) EXCEPT !.isProcessingAttempt = FALSE,
                                                !.isProcessingAttemptRef = FALSE]
          ELSE
            LET c3 == [c2 EXCEPT !.incorrectAttempts = Put(@, currentWord, attemptNumber)]
                c4 == IF attemptNumber >= 2 THEN moveToNextWord(v, c3, s) ELSE c3
            IN startUnlockTimer([c4 EXCEPT !.isProcessingAttempt = TRUE])

\* the callback of the settle timer
unlock(c) == [c EXCEPT !.isProcessingAttempt = FALSE,
                       !.isProcessingAttemptRef = FALSE,
                       !.unlockPending = FALSE]

\* handleSkip closes over the current render, so it reads c itself
handleSkip(c) ==
  IF ~c.gameActive \/ c.gameOver THEN c
  ELSE IF ~HasAt(c.shuffledWords, c.currentWordIndex) THEN c
  ELSE
    LET currentWord == At(c.shuffledWords, c.currentWordIndex)
        attemptNumber == Get(c.incorrectAttempts, currentWord) + 1
        logEntry == [word |-> currentWord,
                     userAnswer |-> <<"SKIPPED">>,
                     isCorrect |-> FALSE,
                     attemptNumber |-> attemptNumber,
                     possibilities |-> << >>]
        c1 == [c EXCEPT !.gameLog = Append(@, logEntry),
                        !.usedWords = @ \cup {currentWord},
                        !.usedTouched = TRUE]
    IN IF c.currentWordIndex < Len(c.shuffledWords) - 1
       THEN [c1 EXCEPT !.currentWordIndex = @ + 1]
       ELSE endGame(c1)

\* startGame of the shuffle-once controller; perm is the outcome of shuffleWords
startGameOnce(c, perm) ==
  [c EXCEPT !.gameActive = TRUE, !.gameOver = FALSE, !.gameLog = << >>,
            !.incorrectAttempts = EmptyMap, !.usedWords = {},
            !.shuffledWords = perm, !.currentWordIndex = 0]

\* startGame of the re-shuffling controller
startGameReshuffle(c) ==
  [c EXCEPT !.gameActive = TRUE, !.gameOver = FALSE, !.gameLog = << >>]

\* shuffleWords of the re-shuffling controller followed by the body of the
\* effect that calls it; perm is an order of the whole list, of which the
\* available words are kept
SelectWords(perm, S) == SelectSeq(perm, LAMBDA w : w \in S)

shuffleEffect(c, perm) ==
  LET availableWords == {w \in WordSet : w \notin c.usedWords}
  IN IF availableWords = {}
     THEN [c EXCEPT !.usedWords = {}, !.shuffledWords = perm,
                    !.currentWordIndex = 0, !.incorrectAttempts = EmptyMap]
     ELSE [c EXCEPT !.shuffledWords = SelectWords(perm, availableWords),
                    !.currentWordIndex = 0, !.incorrectAttempts = EmptyMap]

\* The effects of the page that run after a handler's render.  before is the
\* page's state at the previous render.
pageEffects(v, before, c, perm) ==
  LET active == c.gameActive /\ ~c.gameOver
      changed == before.gameActive # c.gameActive \/ before.gameOver # c.gameOver
  IN IF v = "once"
     THEN IF active /\ changed THEN [c EXCEPT !.incorrectAttempts = EmptyMap] ELSE c
     ELSE IF active /\ (changed \/ c.usedTouched) THEN shuffleEffect(c, perm) ELSE c

\* ---------------------------------------------------------------- state
VARIABLES
  variant,                 \* which version of the page runs: "once" or "reshuffle"
  engine,                  \* which SpeechRecognition component: "webSpeech" or "azure"
  \* the page (IndexPage)
  gameActive, gameOver, shuffledWords, currentWordIndex, usedWords,
  incorrectAttempts, gameLog, isProcessingAttempt, isProcessingAttemptRef,
  isListening, isProcessing,
  unlockPending,           \* the settle timer of handleSpeechResult is pending
  games,                   \* games started; the component's current mount
  \* the Web Speech component, one instance per mount
  hasProcessedAnswer, lastInterim, lastAlternatives,
  interimTimeoutRef,       \* 0, or the recognizer whose onresult set the pending timer
  recognitionInstance,     \* 0, or a recognizer
  windowSpeechRecognition, \* window.speechRecognition: 0, or a recognizer
  \* the recording component (Azure), one instance per mount
  mountRender,             \* the closure of the render that mounted the component
  mediaRecorderRef,        \* 0, or a recorder
  recordingTimeoutRef,     \* 0, or the recorder whose maximum-duration timer it holds
  recordingTimers,         \* recorders whose maximum-duration timer is pending
  \* the browser's recognizers and recorders, and the continuations in flight
  rec,
  finallyPending,          \* recognizers whose processTranscript awaits its 500 ms
  \* history
  onResultCalls,           \* calls of onResult made by each recognizer's callbacks
  skips,                   \* presses of the Skip button so far
  lastFinal,               \* the recognizer whose final result was the last event, or 0
  lastTimer,               \* the recognizer whose silence timer's expiry was the last event, or 0
  lastHeard,               \* the interim result delivered by the last event, if it was one
  \* a caller of areHomonyms
  wordA, wordB,            \* the two words it compares
  asked,                   \* it has made its calls
  homonymsAB, homonymsBA,  \* areHomonyms(wordA, wordB) and areHomonyms(wordB, wordA)
  homonymsOfA,             \* getHomonyms(wordA)
  canonicalOfA,            \* HOMOPHONE_MAP[wordA]
  \* a result put to the match evaluation of handleSpeechResult on its own
  matchTarget,             \* currentWord.text
  matchTranscript,         \* the transcript, as its tokens
  matchAlternatives,       \* the ranked alternatives
  matched,                 \* the evaluation has run
  matchWords,              \* allPossibleWords
  matchIsCorrect,          \* isCorrect
  matchPossibilities       \* possibilities

pageVars == <<gameActive, gameOver, shuffledWords, currentWordIndex, usedWords,
              incorrectAttempts, gameLog, isProcessingAttempt,
              isProcessingAttemptRef, isListening, isProcessing, unlockPending>>
componentVars == <<hasProcessedAnswer, lastInterim, lastAlternatives,
                   interimTimeoutRef, recognitionInstance,
                   windowSpeechRecognition, mountRender, mediaRecorderRef,
                   recordingTimeoutRef, recordingTimers,
                   rec, finallyPending, onResultCalls>>
homonymVars == <<wordA, wordB, asked, homonymsAB, homonymsBA, homonymsOfA,
                 canonicalOfA>>
gameVars == <<variant, engine, pageVars, games, componentVars, lastFinal, lastTimer,
              lastHeard, skips>>
matchVars == <<matchTarget, matchTranscript, matchAlternatives, matched,
               matchWords, matchIsCorrect, matchPossibilities>>
vars == <<gameVars, homonymVars, matchVars>>

Recognizers == 1..MaxSessions
Mounts == 1..MaxGames

\* what the recognizer delivers in event.results[0]
Utterances ==
  { <<[transcript |-> <<"too">>, confidence |-> 90]>>,
    <<[transcript |-> <<"cat">>, confidence |-> 80]>> }

\* interim results can also come with an empty transcript
Interims == Utterances \cup { <<[transcript |-> << >>, confidence |-> 0]>> }

\* no interim result was delivered
NoInterim == [r |-> 0, raw |-> << >>]

\* the page's state as a record, and the closure of the current render
Page ==
  [gameActive |-> gameActive, gameOver |-> gameOver,
   shuffledWords |-> shuffledWords, currentWordIndex |-> currentWordIndex,
   usedWords |-> usedWords, incorrectAttempts |-> incorrectAttempts,
   gameLog |-> gameLog, isProcessingAttempt |-> isProcessingAttempt,
   isProcessingAttemptRef |-> isProcessingAttemptRef,
   isListening |-> isListening, isProcessing |-> isProcessing,
   unlockPending |-> unlockPending, usedTouched |-> FALSE]

Component ==
  [hasProcessedAnswer |-> hasProcessedAnswer, lastInterim |-> lastInterim,
   lastAlternatives |-> lastAlternatives, interimTimeoutRef |-> interimTimeoutRef,
   recognitionInstance |-> recognitionInstance,
   windowSpeechRecognition |-> windowSpeechRecognition,
   mountRender |-> mountRender, mediaRecorderRef |-> mediaRecorderRef,
   recordingTimeoutRef |-> recordingTimeoutRef,
   recordingTimers |-> recordingTimers,
   rec |-> rec, finallyPending |-> finallyPending, onResultCalls |-> onResultCalls]

Closure(m) ==
  [gameActive |-> gameActive, gameOver |-> gameOver,
   isProcessingAttempt |-> isProcessingAttempt,
   shuffledWords |-> shuffledWords, currentWordIndex |-> currentWordIndex,
   incorrectAttempts |-> incorrectAttempts, usedWords |-> usedWords,
   recognitionInstance |-> recognitionInstance[m]]

NoClosure ==
  [gameActive |-> FALSE, gameOver |-> FALSE, isProcessingAttempt |-> FALSE,
   shuffledWords |-> << >>, currentWordIndex |-> 0,
   incorrectAttempts |-> EmptyMap, usedWords |-> {}, recognitionInstance |-> 0]

NoRecognizer ==
  [status |-> "none", mount |-> 0, snap |-> NoClosure, results |-> 0, shown |-> ""]

Mounted == gameActive /\ ~gameOver

\* the word the page shows: shuffledWords[currentWordIndex] of the current
\* render while the game is active ("" when there is none)
ShownWord ==
  IF Mounted /\ HasAt(shuffledWords, currentWordIndex)
  THEN At(shuffledWords, currentWordIndex) ELSE ""
NumCreated == Cardinality({r \in Recognizers : rec[r].status # "none"})

\* nothing has been put to the match evaluation on its own
NoMatch ==
  /\ matchTarget = "" /\ matchTranscript = << >> /\ matchAlternatives = << >>
  /\ matched = FALSE
  /\ matchWords = {} /\ matchIsCorrect = FALSE /\ matchPossibilities = << >>

Init ==
  /\ variant \in {"once", "reshuffle"}
  /\ engine \in {"webSpeech", "azure"}
  /\ gameActive = FALSE /\ gameOver = FALSE
  /\ shuffledWords = << >> /\ currentWordIndex = 0
  /\ usedWords = {} /\ incorrectAttempts = EmptyMap /\ gameLog = << >>
  /\ isProcessingAttempt = FALSE /\ isProcessingAttemptRef = FALSE
  /\ isListening = FALSE /\ isProcessing = FALSE
  /\ unlockPending = FALSE
  /\ games = 0
  /\ skips = 0
  /\ hasProcessedAnswer = [m \in Mounts |-> FALSE]
  /\ lastInterim = [m \in Mounts |-> << >>]
  /\ lastAlternatives = [m \in Mounts |-> << >>]
  /\ interimTimeoutRef = [m \in Mounts |-> 0]
  /\ recognitionInstance = [m \in Mounts |-> 0]
  /\ windowSpeechRecognition = 0
  /\ mountRender = [m \in Mounts |-> NoClosure]
  /\ mediaRecorderRef = [m \in Mounts |-> 0]
  /\ recordingTimeoutRef = [m \in Mounts |-> 0]
  /\ recordingTimers = {}
  /\ rec = [r \in Recognizers |-> NoRecognizer]
  /\ finallyPending = {}
  /\ onResultCalls = [r \in Recognizers |-> 0]
  /\ lastFinal = 0
  /\ lastTimer = 0
  /\ lastHeard = NoInterim
  /\ wordA = "" /\ wordB = "" /\ asked = FALSE
  /\ homonymsAB = FALSE /\ homonymsBA = FALSE
  /\ homonymsOfA = << >> /\ canonicalOfA = << >>
  /\ NoMatch

\* --------------------------------------------- the Web Speech component
\* The component's callbacks as functions on st = [c, k]: c the page's
\* record, k the record of the component instances and the recognizers.
\* m is the mount the callback belongs to and r the recognizer whose render
\* closure (rec[r].snap) the callback carries.

\* SpeechRecognition.stop(): a recognizer that is listening stops; it may
\* still return a result for the audio it has, and then ends.  One that has
\* not started yet has no audio: it only ends.
stopInstance(recs, a) ==
  IF a # 0 /\ recs[a].status = "live"
  THEN [recs EXCEPT ![a].status = "stopping"]
  ELSE IF a # 0 /\ recs[a].status = "starting"
  THEN [recs EXCEPT ![a].status = "closing"]
  ELSE recs

\* alternatives.sort((a, b) => b.confidence - a.confidence)
RECURSIVE InsertByConfidence(_, _)
InsertByConfidence(alt, sorted) ==
  IF sorted = << >> THEN <<alt>>
  ELSE IF alt.confidence > Head(sorted).confidence THEN <<alt>> \o sorted
       ELSE <<Head(sorted)>> \o InsertByConfidence(alt, Tail(sorted))

RECURSIVE SortByConfidence(_)
SortByConfidence(alternatives) ==
  IF alternatives = << >> THEN << >>
  ELSE InsertByConfidence(alternatives[Len(alternatives)],
                          SortByConfidence(SubSeq(alternatives, 1, Len(alternatives) - 1)))

\* stopRecognition, with a the recognitionInstance of its closure
stopRecognition(st, m, a) ==
  LET k1 == IF a # 0
            THEN [st.k EXCEPT !.rec = stopInstance(@, a),
                              !.recognitionInstance[m] = 0,
                              !.windowSpeechRecognition = 0]
            ELSE st.k
  IN [c |-> [st.c EXCEPT !.isListening = FALSE], k |-> k1]

\* the session guard of processTranscript
sessionGuardDrops(k, m) == k.hasProcessedAnswer[m]

\* processTranscript up to its await: the guard, then onResult.  A null
\* transcript (modelled as the empty sequence) throws before onResult.
processTranscript(v, st, r, transcript, alternatives) ==
  LET m == st.k.rec[r].mount IN
  IF sessionGuardDrops(st.k, m) THEN st
  ELSE
    LET k1 == [st.k EXCEPT !.hasProcessedAnswer[m] = TRUE,
                           !.finallyPending = @ \cup {r}]
        c1 == [st.c EXCEPT !.isProcessing = TRUE, !.isListening = FALSE]
    IN IF transcript = << >> THEN [c |-> c1, k |-> k1]
       ELSE [c |-> handleSpeechResult(v, c1, st.k.rec[r].snap,
                                      lowerCaseWords(transcript), alternatives),
             k |-> [k1 EXCEPT !.onResultCalls[r] = @ + 1]]

\* the finally block of processTranscript, after the 500 ms
processTranscriptFinally(st, r) ==
  LET m == st.k.rec[r].mount
      a == st.k.rec[r].snap.recognitionInstance
      c1 == [st.c EXCEPT !.isProcessing = FALSE, !.isListening = FALSE]
      k1 == [st.k EXCEPT !.finallyPending = @ \ {r}]
  IN IF a # 0
     THEN [c |-> c1,
           k |-> [k1 EXCEPT !.rec = stopInstance(@, a),
                            !.recognitionInstance[m] = 0,
                            !.windowSpeechRecognition = 0]]
     ELSE [c |-> c1, k |-> k1]

\* an onstart that leaves the session guard as it finds it
onstartKeepingGuard(st, r) ==
  LET m == st.k.rec[r].mount
  IN [c |-> [st.c EXCEPT !.isListening = TRUE, !.isProcessing = FALSE],
      k |-> [st.k EXCEPT !.lastInterim[m] = << >>,
                         !.lastAlternatives[m] = << >>,
                         !.interimTimeoutRef[m] = 0]]

\* recognition.onstart
onstart(st, r) ==
  LET m == st.k.rec[r].mount
  IN [c |-> [st.c EXCEPT !.isListening = TRUE, !.isProcessing = FALSE],
      k |-> [st.k EXCEPT !.hasProcessedAnswer[m] = FALSE,
                         !.lastInterim[m] = << >>,
                         !.lastAlternatives[m] = << >>,
                         !.interimTimeoutRef[m] = 0]]

\* an onresult that buffers the first interim result only
onresultKeepingFirst(v, st, r, raw, isFinal) ==
  LET m == st.k.rec[r].mount
      alternatives == SortByConfidence(raw)
  IN IF sessionGuardDrops(st.k, m) THEN st
     ELSE IF isFinal
     THEN LET st1 == [st EXCEPT !.k.interimTimeoutRef[m] = 0]
              st2 == processTranscript(v, st1, r, alternatives[1].transcript, alternatives)
          IN [st2 EXCEPT !.k.lastInterim[m] = << >>,
                         !.k.lastAlternatives[m] = << >>]
     ELSE IF Len(alternatives[1].transcript) > 0 /\ st.k.lastInterim[m] = << >>
     THEN [st EXCEPT !.k.lastInterim[m] = alternatives[1].transcript,
                     !.k.lastAlternatives[m] = alternatives,
                     !.k.interimTimeoutRef[m] = r]
     ELSE st

\* recognition.onresult; raw is event.results[0]
onresult(v, st, r, raw, isFinal) ==
  LET m == st.k.rec[r].mount
      alternatives == SortByConfidence(raw)
  IN IF sessionGuardDrops(st.k, m) THEN st
     ELSE IF isFinal
     THEN LET st1 == [st EXCEPT !.k.interimTimeoutRef[m] = 0]
              bestMatch == alternatives[1]
              st2 == processTranscript(v, st1, r, bestMatch.transcript, alternatives)
          IN [st2 EXCEPT !.k.lastInterim[m] = << >>,
                         !.k.lastAlternatives[m] = << >>]
     ELSE IF Len(alternatives[1].transcript) > 0
     THEN [st EXCEPT !.k.lastInterim[m] = alternatives[1].transcript,
                     !.k.lastAlternatives[m] = alternatives,
                     !.k.interimTimeoutRef[m] = r]
     ELSE st

\* the callback of the 300 ms timer set by r's onresult
interimTimeout(v, st, m, r) ==
  LET st0 == [st EXCEPT !.k.interimTimeoutRef[m] = 0]
  IN IF sessionGuardDrops(st0.k, m) THEN st0
     ELSE LET st1 == processTranscript(v, st0, r, st0.k.lastInterim[m],
                                       st0.k.lastAlternatives[m])
              a == st0.k.rec[r].snap.recognitionInstance
          IN [st1 EXCEPT !.k.lastInterim[m] = << >>,
                         !.k.lastAlternatives[m] = << >>,
                         !.k.rec = stopInstance(@, a)]

\* recognition.onend
onend(v, st, r) ==
  LET m == st.k.rec[r].mount
      st0 == [st EXCEPT !.k.interimTimeoutRef[m] = 0]
      st1 == IF ~st0.k.hasProcessedAnswer[m] /\ st0.k.lastInterim[m] # << >>
             THEN LET p == processTranscript(v, st0, r, st0.k.lastInterim[m],
                                             st0.k.lastAlternatives[m])
                  IN [p EXCEPT !.k.lastInterim[m] = << >>,
                               !.k.lastAlternatives[m] = << >>]
             ELSE st0
  IN [st1 EXCEPT !.k.recognitionInstance[m] = 0,
                 !.k.windowSpeechRecognition = 0]

\* an error handler that charges the failure to the player
onerrorConsuming(st, r) == [st EXCEPT !.c.currentWordIndex = @ + 1]

\* recognition.onerror, for every kind of error
onerror(st, r) ==
  LET m == st.k.rec[r].mount
      st0 == [c |-> [st.c EXCEPT !.isProcessing = FALSE, !.isListening = FALSE],
              k |-> [st.k EXCEPT !.interimTimeoutRef[m] = 0]]
      st1 == stopRecognition(st0, m, st0.k.rec[r].snap.recognitionInstance)
  IN [st1 EXCEPT !.k.hasProcessedAnswer[m] = TRUE]

\* a cleanup that leaves the silence timer alone
effectCleanupKeepingTimer(st, m, a) ==
  LET st1 == stopRecognition(st, m, a)
  IN [st1 EXCEPT !.k.hasProcessedAnswer[m] = FALSE]

\* the cleanup of the component's effect; a is the recognitionInstance of the
\* render that set the effect up
effectCleanup(st, m, a) ==
  LET st1 == stopRecognition(st, m, a)
  IN [st1 EXCEPT !.k.hasProcessedAnswer[m] = FALSE,
                 !.k.interimTimeoutRef[m] = 0]

\* ------------------------------------------ the recording component
\* The component that records with a MediaRecorder and sends the audio to
\* the Azure service.  startRecording is memoised on [setIsListening,
\* addStatus], which never change, so the onstop it installs calls the
\* processAudio, and through it the onResult, of the render that mounted
\* the component (rec[r].snap = mountRender[m]).

\* the render closure a component mounted by page state c gets
RenderOf(c) ==
  [gameActive |-> c.gameActive, gameOver |-> c.gameOver,
   isProcessingAttempt |-> c.isProcessingAttempt,
   shuffledWords |-> c.shuffledWords, currentWordIndex |-> c.currentWordIndex,
   incorrectAttempts |-> c.incorrectAttempts, usedWords |-> c.usedWords,
   recognitionInstance |-> 0]

\* startRecording after getUserMedia has resolved: the recorder and its
\* maximum-duration timer replace whatever the refs held
startRecording(st, r) ==
  LET m == st.k.rec[r].mount
  IN [c |-> [st.c EXCEPT !.isListening = TRUE],
      k |-> [st.k EXCEPT !.rec[r].status = "recording",
                         !.mediaRecorderRef[m] = r,
                         !.recordingTimeoutRef[m] = r,
                         !.recordingTimers = @ \cup {r}]]

\* stopRecording
stopRecording(st, m) ==
  LET a == st.k.mediaRecorderRef[m]
  IN IF a # 0 /\ st.k.rec[a].status = "recording"
     THEN [c |-> [st.c EXCEPT !.isListening = FALSE],
           k |-> [st.k EXCEPT !.rec[a].status = "stopped"]]
     ELSE st

\* the callback of the maximum-duration timer of recorder r
recordingTimeout(st, r) ==
  LET m == st.k.rec[r].mount
      st0 == [st EXCEPT !.k.recordingTimers = @ \ {r}]
  IN stopRecording(st0, m)

\* mediaRecorder.onstop up to the call of processAudio; tooShort says
\* whether the measured duration is below MIN_RECORDING_DURATION
onstop(st, r, tooShort) ==
  LET m == st.k.rec[r].mount
      t == st.k.recordingTimeoutRef[m]
      st0 == IF t # 0
             THEN [st EXCEPT !.k.recordingTimers = @ \ {t},
                             !.k.recordingTimeoutRef[m] = 0]
             ELSE st
  IN IF tooShort
     THEN [st0 EXCEPT !.c.isListening = FALSE, !.k.rec[r].status = "ended"]
     ELSE [st0 EXCEPT !.c.isProcessing = TRUE, !.k.rec[r].status = "processing"]

\* what the recognition request can come to: an HTTP status that is not ok
\* (decoding errors and missing credentials throw to the same catch), a
\* RecognitionStatus other than Success, or Success with the NBest list
Failures ==
  { [ok |-> FALSE, RecognitionStatus |-> "", NBest |-> << >>],
    [ok |-> TRUE, RecognitionStatus |-> "NoMatch", NBest |-> << >>] }
Outcomes ==
  Failures \cup
  { [ok |-> TRUE, RecognitionStatus |-> "Success", NBest |-> u] : u \in Utterances }

\* processAudio from the response on, and the clean-up of onstop after it
processAudio(v, st, r, outcome) ==
  LET m == st.k.rec[r].mount
      st1 == IF ~outcome.ok \/ outcome.RecognitionStatus # "Success" THEN st
             ELSE [c |-> handleSpeechResult(v, st.c, st.k.rec[r].snap,
                                            outcome.NBest[1].transcript,
                                            outcome.NBest),
                   k |-> [st.k EXCEPT !.onResultCalls[r] = @ + 1]]
  IN [st1 EXCEPT !.c.isProcessing = FALSE,
                 !.k.mediaRecorderRef[m] = 0,
                 !.k.rec[r].status = "ended"]

\* ---------------------------------------------------------------- actions
Now == [c |-> Page, k |-> Component]

\* A recognizer that has ended, with no timer and no continuation of its
\* callbacks pending, can run no callback any more: its closure is garbage.
\* Likewise the refs of an unmounted component none of whose recognizers
\* can call back.  Both are reset to their initial values.
Collectable(k, r) ==
  /\ k.rec[r].status = "ended"
  /\ r \notin k.finallyPending
  /\ r \notin k.recordingTimers
  /\ \A m \in Mounts : k.interimTimeoutRef[m] # r

Released(k, m, nowGames, nowMounted) ==
  /\ m < nowGames \/ (m = nowGames /\ ~nowMounted)
  /\ \A r \in Recognizers : k.rec[r].mount = m => Collectable(k, r)

Collect(st, nowGames) ==
  LET nowMounted == st.c.gameActive /\ ~st.c.gameOver
      k == st.k
  IN [st EXCEPT
        !.k.rec = [r \in Recognizers |->
                     IF Collectable(k, r)
                     THEN [status |-> "ended", mount |-> k.rec[r].mount,
                           snap |-> NoClosure, results |-> 0, shown |-> ""]
                     ELSE k.rec[r]],
        !.k.hasProcessedAnswer = [m \in Mounts |->
           IF Released(k, m, nowGames, nowMounted) THEN FALSE ELSE k.hasProcessedAnswer[m]],
        !.k.lastInterim = [m \in Mounts |->
           IF Released(k, m, nowGames, nowMounted) THEN << >> ELSE k.lastInterim[m]],
        !.k.lastAlternatives = [m \in Mounts |->
           IF Released(k, m, nowGames, nowMounted) THEN << >> ELSE k.lastAlternatives[m]],
        !.k.recognitionInstance = [m \in Mounts |->
           IF Released(k, m, nowGames, nowMounted) THEN 0 ELSE k.recognitionInstance[m]],
        !.k.mountRender = [m \in Mounts |->
           IF Released(k, m, nowGames, nowMounted) THEN NoClosure ELSE k.mountRender[m]],
        !.k.mediaRecorderRef = [m \in Mounts |->
           IF Released(k, m, nowGames, nowMounted) THEN 0 ELSE k.mediaRecorderRef[m]],
        !.k.recordingTimeoutRef = [m \in Mounts |->
           IF Released(k, m, nowGames, nowMounted) THEN 0 ELSE k.recordingTimeoutRef[m]]]

SetState(st0, nowGames) ==
  \E s0 \in {st0} : \E st \in {Collect(s0, nowGames)} :
  /\ gameActive' = st.c.gameActive
  /\ gameOver' = st.c.gameOver
  /\ shuffledWords' = st.c.shuffledWords
  /\ currentWordIndex' = st.c.currentWordIndex
  /\ usedWords' = st.c.usedWords
  /\ incorrectAttempts' = st.c.incorrectAttempts
  /\ gameLog' = st.c.gameLog
  /\ isProcessingAttempt' = st.c.isProcessingAttempt
  /\ isProcessingAttemptRef' = st.c.isProcessingAttemptRef
  /\ isListening' = st.c.isListening
  /\ isProcessing' = st.c.isProcessing
  /\ unlockPending' = st.c.unlockPending
  /\ hasProcessedAnswer' = st.k.hasProcessedAnswer
  /\ lastInterim' = st.k.lastInterim
  /\ lastAlternatives' = st.k.lastAlternatives
  /\ interimTimeoutRef' = st.k.interimTimeoutRef
  /\ recognitionInstance' = st.k.recognitionInstance
  /\ windowSpeechRecognition' = st.k.windowSpeechRecognition
  /\ mountRender' = st.k.mountRender
  /\ mediaRecorderRef' = st.k.mediaRecorderRef
  /\ recordingTimeoutRef' = st.k.recordingTimeoutRef
  /\ recordingTimers' = st.k.recordingTimers
  /\ rec' = st.k.rec
  /\ finallyPending' = st.k.finallyPending
  /\ onResultCalls' = st.k.onResultCalls

\* The render that follows a handler and the effects of that render: the
\* page's effect, and the cleanup of the component's effect, which runs when
\* the component unmounts (the game is no longer active) and whenever its
\* recognitionInstance state has changed.
Commit(st, perm) ==
  LET c1 == pageEffects(variant, Page, st.c, perm)
      st1 == [c |-> c1, k |-> st.k]
      nowMounted == c1.gameActive /\ ~c1.gameOver
      a == IF games = 0 THEN 0 ELSE recognitionInstance[games]
      b == IF games = 0 THEN 0 ELSE st.k.recognitionInstance[games]
  IN IF engine = "webSpeech" /\ Mounted /\ (~nowMounted \/ b # a)
     THEN SetState(effectCleanup(st1, games, a), games)
     ELSE SetState(st1, games)

\* the outcomes of shuffleWords that an effect after this event can use
Shuffles == IF variant = "reshuffle" THEN Orders(WordSet) ELSE {words}

\* The player presses Start Game or Play Again (shown while no game runs).
StartGame ==
  /\ ~Mounted
  /\ games < MaxGames
  /\ games' = games + 1
  /\ \E perm \in Orders(WordSet) :
       LET c1 == IF variant = "once" THEN startGameOnce(Page, perm)
                 ELSE startGameReshuffle(Page)
           k1 == IF engine = "azure"
                 THEN [Component EXCEPT !.mountRender[games + 1] = RenderOf(c1)]
                 ELSE Component
       IN SetState([c |-> pageEffects(variant, Page, c1, perm), k |-> k1],
                   games + 1)
  /\ lastFinal' = 0 /\ lastTimer' = 0
  /\ lastHeard' = NoInterim
  /\ UNCHANGED <<homonymVars, matchVars, variant, engine, skips>>

\* The player presses Skip (disabled while isProcessing).
Skip ==
  /\ Mounted
  /\ ~isProcessing
  /\ skips < MaxSkips
  /\ skips' = skips + 1
  /\ \E perm \in Shuffles :
       Commit([c |-> handleSkip(Page), k |-> Component], perm)
  /\ lastFinal' = 0 /\ lastTimer' = 0
  /\ lastHeard' = NoInterim
  /\ UNCHANGED <<homonymVars, matchVars, variant, engine, games>>

\* The settle timer of handleSpeechResult fires.
Unlock ==
  /\ unlockPending
  /\ Commit([c |-> unlock(Page), k |-> Component], words)
  /\ lastFinal' = 0 /\ lastTimer' = 0
  /\ lastHeard' = NoInterim
  /\ UNCHANGED <<homonymVars, matchVars, variant, engine, games, skips>>

\* toggleListening while not listening: the old instances are stopped, a new
\* recognizer is created with the callbacks of this render, and started.
ToggleStart ==
  /\ engine = "webSpeech"
  /\ Mounted
  /\ ~isListening
  /\ ~isProcessing
  /\ NumCreated < MaxSessions
  /\ LET m == games
         r == NumCreated + 1
         a == recognitionInstance[m]
         \* window.speechRecognition.stop()
         k1 == [Component EXCEPT !.rec = stopInstance(@, windowSpeechRecognition),
                                 !.windowSpeechRecognition = 0]
         \* initializeRecognition stops the instance of its closure; the
         \* state change runs the effect's cleanup
         st2 == IF a # 0
                THEN effectCleanup(stopRecognition([c |-> Page, k |-> k1], m, a), m, a)
                ELSE [c |-> Page, k |-> k1]
         \* the new instance is stored; the state change runs the cleanup
         \* of the render in which recognitionInstance was null
         k3 == [st2.k EXCEPT !.rec[r] = [status |-> "starting", mount |-> m,
                                         snap |-> Closure(m), results |-> 0,
                                        shown |-> ""],
                             !.recognitionInstance[m] = r,
                             !.windowSpeechRecognition = r]
         st4 == effectCleanup([c |-> st2.c, k |-> k3], m, 0)
     IN SetState([st4 EXCEPT !.k.hasProcessedAnswer[m] = FALSE], games)
  /\ lastFinal' = 0 /\ lastTimer' = 0
  /\ lastHeard' = NoInterim
  /\ UNCHANGED <<homonymVars, matchVars, variant, engine, games, skips>>

\* toggleListening while listening
ToggleStop ==
  /\ engine = "webSpeech"
  /\ Mounted
  /\ isListening
  /\ ~isProcessing
  /\ LET m == games
         st1 == stopRecognition(Now, m, recognitionInstance[m])
     IN Commit([st1 EXCEPT !.k.hasProcessedAnswer[m] = FALSE], words)
  /\ lastFinal' = 0 /\ lastTimer' = 0
  /\ lastHeard' = NoInterim
  /\ UNCHANGED <<homonymVars, matchVars, variant, engine, games, skips>>

\* ------------------------------------------- the recognizer's events
RecStart(r) ==
  /\ rec[r].status = "starting"
  /\ Commit(onstart([Now EXCEPT !.k.rec[r].status = "live",
                                !.k.rec[r].shown = ShownWord], r), words)
  /\ lastFinal' = 0 /\ lastTimer' = 0
  /\ lastHeard' = NoInterim
  /\ UNCHANGED <<homonymVars, matchVars, variant, engine, games, skips>>

RecInterim(r) ==
  /\ rec[r].status = "live"
  /\ rec[r].results < MaxResults
  /\ \E raw \in Interims, perm \in Shuffles :
       /\ Commit(onresult(variant, [Now EXCEPT !.k.rec[r].results = @ + 1], r, raw, FALSE),
                 perm)
       /\ lastHeard' = [r |-> r, raw |-> raw]
  /\ lastFinal' = 0 /\ lastTimer' = 0
  /\ UNCHANGED <<homonymVars, matchVars, variant, engine, games, skips>>

RecFinal(r) ==
  /\ rec[r].status \in {"live", "stopping"}
  /\ rec[r].results < MaxResults
  /\ \E raw \in Utterances, perm \in Shuffles :
       Commit(onresult(variant, [Now EXCEPT !.k.rec[r].results = @ + 1], r, raw, TRUE),
              perm)
  /\ lastFinal' = r /\ lastTimer' = 0
  /\ lastHeard' = NoInterim
  /\ UNCHANGED <<homonymVars, matchVars, variant, engine, games, skips>>

RecError(r) ==
  /\ rec[r].status \in {"starting", "live"}
  /\ Commit(onerror([Now EXCEPT !.k.rec[r].status = "errored"], r), words)
  /\ lastFinal' = 0 /\ lastTimer' = 0
  /\ lastHeard' = NoInterim
  /\ UNCHANGED <<homonymVars, matchVars, variant, engine, games, skips>>

RecEnd(r) ==
  /\ rec[r].status \in {"live", "stopping", "errored", "closing"}
  /\ \E perm \in Shuffles :
       Commit(onend(variant, [Now EXCEPT !.k.rec[r].status = "ended"], r), perm)
  /\ lastFinal' = 0 /\ lastTimer' = 0
  /\ lastHeard' = NoInterim
  /\ UNCHANGED <<homonymVars, matchVars, variant, engine, games, skips>>

\* the 300 ms of silence after an interim result have passed
InterimTimerFires(m) ==
  /\ interimTimeoutRef[m] # 0
  /\ \E perm \in Shuffles :
       Commit(interimTimeout(variant, Now, m, interimTimeoutRef[m]), perm)
  /\ lastFinal' = 0 /\ lastTimer' = interimTimeoutRef[m]
  /\ lastHeard' = NoInterim
  /\ UNCHANGED <<homonymVars, matchVars, variant, engine, games, skips>>

\* the 500 ms that processTranscript waits have passed
ProcessingDone(r) ==
  /\ r \in finallyPending
  /\ Commit(processTranscriptFinally(Now, r), words)
  /\ lastFinal' = 0 /\ lastTimer' = 0
  /\ lastHeard' = NoInterim
  /\ UNCHANGED <<homonymVars, matchVars, variant, engine, games, skips>>

\* ------------------------------------------- the recording component
\* toggleRecording while not listening: startRecording asks for the
\* microphone
RecordStart ==
  /\ engine = "azure"
  /\ Mounted
  /\ ~isListening
  /\ ~isProcessing
  /\ NumCreated < MaxSessions
  /\ LET m == games
         r == NumCreated + 1
     IN Commit([Now EXCEPT !.k.rec[r] = [status |-> "requesting", mount |-> m,
                                         snap |-> mountRender[m], results |-> 0,
                                        shown |-> ""]],
               words)
  /\ lastFinal' = 0 /\ lastTimer' = 0
  /\ lastHeard' = NoInterim
  /\ UNCHANGED <<homonymVars, matchVars, variant, engine, games, skips>>

\* toggleRecording while listening
RecordStop ==
  /\ engine = "azure"
  /\ Mounted
  /\ isListening
  /\ ~isProcessing
  /\ Commit(stopRecording(Now, games), words)
  /\ lastFinal' = 0 /\ lastTimer' = 0
  /\ lastHeard' = NoInterim
  /\ UNCHANGED <<homonymVars, matchVars, variant, engine, games, skips>>

\* getUserMedia resolves with a stream
MediaGranted(r) ==
  /\ rec[r].status = "requesting"
  /\ Commit(startRecording([Now EXCEPT !.k.rec[r].shown = ShownWord], r), words)
  /\ lastFinal' = 0 /\ lastTimer' = 0
  /\ lastHeard' = NoInterim
  /\ UNCHANGED <<homonymVars, matchVars, variant, engine, games, skips>>

\* getUserMedia rejects: startRecording catches and reports
MediaDenied(r) ==
  /\ rec[r].status = "requesting"
  /\ Commit([Now EXCEPT !.k.rec[r].status = "ended"], words)
  /\ lastFinal' = 0 /\ lastTimer' = 0
  /\ lastHeard' = NoInterim
  /\ UNCHANGED <<homonymVars, matchVars, variant, engine, games, skips>>

\* MAX_RECORDING_DURATION has passed since recorder r was started
RecordingTimerFires(r) ==
  /\ r \in recordingTimers
  /\ Commit(recordingTimeout(Now, r), words)
  /\ lastFinal' = 0 /\ lastTimer' = 0
  /\ lastHeard' = NoInterim
  /\ UNCHANGED <<homonymVars, matchVars, variant, engine, games, skips>>

\* the recorder's stop event
RecorderStopped(r) ==
  /\ rec[r].status = "stopped"
  /\ \E tooShort \in BOOLEAN : Commit(onstop(Now, r, tooShort), words)
  /\ lastFinal' = 0 /\ lastTimer' = 0
  /\ lastHeard' = NoInterim
  /\ UNCHANGED <<homonymVars, matchVars, variant, engine, games, skips>>

\* the recognition request of recorder r comes to its outcome
AzureResponds(r) ==
  /\ rec[r].status = "processing"
  /\ \E outcome \in Outcomes, perm \in Shuffles :
       Commit(processAudio(variant, Now, r, outcome), perm)
  /\ lastFinal' = 0 /\ lastTimer' = 0
  /\ lastHeard' = NoInterim
  /\ UNCHANGED <<homonymVars, matchVars, variant, engine, games, skips>>

Next ==
  \/ StartGame
  \/ Skip
  \/ Unlock
  \/ ToggleStart
  \/ ToggleStop
  \/ \E r \in Recognizers : RecStart(r)
  \/ \E r \in Recognizers : RecInterim(r)
  \/ \E r \in Recognizers : RecFinal(r)
  \/ \E r \in Recognizers : RecError(r)
  \/ \E r \in Recognizers : RecEnd(r)
  \/ \E m \in Mounts : InterimTimerFires(m)
  \/ \E r \in Recognizers : ProcessingDone(r)
  \/ RecordStart
  \/ RecordStop
  \/ \E r \in Recognizers : MediaGranted(r)
  \/ \E r \in Recognizers : MediaDenied(r)
  \/ \E r \in Recognizers : RecordingTimerFires(r)
  \/ \E r \in Recognizers : RecorderStopped(r)
  \/ \E r \in Recognizers : AzureResponds(r)

Spec == Init /\ [][Next]_vars

\* ------------------------------------------------ areHomonyms on its own
\* The words a caller can pass: every word of every group, a word of no
\* group, and some of them in other letter cases.
Vocabulary ==
  UNION {Range(HOMONYM_GROUPS[g]) : g \in 1..Len(HOMONYM_GROUPS)}
    \cup {"cat", "Cat", "To", "TO", "Too", "TOO", "Two", "TWO",
          "There", "THEIR", "They're", "KNOW", "No"}

\* no game runs; the caller holds any two words
InitHomonyms ==
  /\ variant = "once" /\ engine = "webSpeech"
  /\ gameActive = FALSE /\ gameOver = FALSE
  /\ shuffledWords = << >> /\ currentWordIndex = 0
  /\ usedWords = {} /\ incorrectAttempts = EmptyMap /\ gameLog = << >>
  /\ isProcessingAttempt = FALSE /\ isProcessingAttemptRef = FALSE
  /\ isListening = FALSE /\ isProcessing = FALSE
  /\ unlockPending = FALSE
  /\ games = 0
  /\ skips = 0
  /\ hasProcessedAnswer = [m \in Mounts |-> FALSE]
  /\ lastInterim = [m \in Mounts |-> << >>]
  /\ lastAlternatives = [m \in Mounts |-> << >>]
  /\ interimTimeoutRef = [m \in Mounts |-> 0]
  /\ recognitionInstance = [m \in Mounts |-> 0]
  /\ windowSpeechRecognition = 0
  /\ mountRender = [m \in Mounts |-> NoClosure]
  /\ mediaRecorderRef = [m \in Mounts |-> 0]
  /\ recordingTimeoutRef = [m \in Mounts |-> 0]
  /\ recordingTimers = {}
  /\ rec = [r \in Recognizers |-> NoRecognizer]
  /\ finallyPending = {}
  /\ onResultCalls = [r \in Recognizers |-> 0]
  /\ lastFinal = 0
  /\ lastTimer = 0
  /\ lastHeard = NoInterim
  /\ wordA \in Vocabulary /\ wordB \in Vocabulary
  /\ asked = FALSE
  /\ homonymsAB = FALSE /\ homonymsBA = FALSE
  /\ homonymsOfA = << >> /\ canonicalOfA = << >>
  /\ NoMatch

\* the caller compares its two words, in both orders, and looks the first
\* one up
AskHomonyms ==
  /\ ~asked
  /\ asked' = TRUE
  /\ homonymsAB' = areHomonyms(wordA, wordB)
  /\ homonymsBA' = areHomonyms(wordB, wordA)
  /\ homonymsOfA' = getHomonyms(wordA)
  /\ canonicalOfA' = Lookup(wordA)
  /\ UNCHANGED <<wordA, wordB, gameVars, matchVars>>

\* the caller takes two other words
NextWords ==
  /\ asked
  /\ asked' = FALSE
  /\ wordA' \in Vocabulary /\ wordB' \in Vocabulary
  /\ homonymsAB' = FALSE /\ homonymsBA' = FALSE
  /\ homonymsOfA' = << >> /\ canonicalOfA' = << >>
  /\ UNCHANGED <<gameVars, matchVars>>

NextHomonyms ==
  \/ AskHomonyms
  \/ NextWords

HomonymSpec == InitHomonyms /\ [][NextHomonyms]_vars

\* ------------------------------------- the match evaluation on its own
\* The inputs of the match evaluation of handleSpeechResult: the word on
\* display, a transcript and a list of ranked alternatives, whatever the
\* recognizer; the evaluation is that of either version of the page.

\* one word in letter case, a homophone in letter case, a word with attached
\* punctuation, and a word that matches nothing
Tokens == {"To", "Too", "Cat.", "hat"}

\* the confidences of an alternative: 0.1 (not logged) and 0.9
Confidences == {10, 90}

Transcripts == UNION {[1..n -> Tokens] : n \in 1..MaxTokens}

Alternatives == [transcript : Transcripts, confidence : Confidences]

AlternativeLists == UNION {[1..n -> Alternatives] : n \in 0..MaxAlternatives}

\* no game runs; a result waits to be evaluated against a word of the list
InitMatch ==
  /\ variant \in {"once", "reshuffle"} /\ engine = "webSpeech"
  /\ gameActive = FALSE /\ gameOver = FALSE
  /\ shuffledWords = << >> /\ currentWordIndex = 0
  /\ usedWords = {} /\ incorrectAttempts = EmptyMap /\ gameLog = << >>
  /\ isProcessingAttempt = FALSE /\ isProcessingAttemptRef = FALSE
  /\ isListening = FALSE /\ isProcessing = FALSE
  /\ unlockPending = FALSE
  /\ games = 0
  /\ skips = 0
  /\ hasProcessedAnswer = [m \in Mounts |-> FALSE]
  /\ lastInterim = [m \in Mounts |-> << >>]
  /\ lastAlternatives = [m \in Mounts |-> << >>]
  /\ interimTimeoutRef = [m \in Mounts |-> 0]
  /\ recognitionInstance = [m \in Mounts |-> 0]
  /\ windowSpeechRecognition = 0
  /\ mountRender = [m \in Mounts |-> NoClosure]
  /\ mediaRecorderRef = [m \in Mounts |-> 0]
  /\ recordingTimeoutRef = [m \in Mounts |-> 0]
  /\ recordingTimers = {}
  /\ rec = [r \in Recognizers |-> NoRecognizer]
  /\ finallyPending = {}
  /\ onResultCalls = [r \in Recognizers |-> 0]
  /\ lastFinal = 0
  /\ lastTimer = 0
  /\ lastHeard = NoInterim
  /\ wordA = "" /\ wordB = "" /\ asked = FALSE
  /\ homonymsAB = FALSE /\ homonymsBA = FALSE
  /\ homonymsOfA = << >> /\ canonicalOfA = << >>
  /\ matchTarget \in WordSet
  /\ matchTranscript \in Transcripts
  /\ matchAlternatives \in AlternativeLists
  /\ matched = FALSE
  /\ matchWords = {} /\ matchIsCorrect = FALSE /\ matchPossibilities = << >>

\* the evaluation of handleSpeechResult: candidate words, verdict, and the
\* possibilities of the log entry
EvaluateMatch ==
  /\ ~matched
  /\ matched' = TRUE
  /\ matchWords' = allPossibleWordsFor(variant, matchTranscript, matchAlternatives)
  /\ matchIsCorrect' =
       isCorrectFor(variant, matchTranscript, matchAlternatives, matchTarget)
  /\ matchPossibilities' = possibilitiesFor(variant, matchAlternatives)
  /\ UNCHANGED <<matchTarget, matchTranscript, matchAlternatives, gameVars,
                 homonymVars>>

NextMatch == EvaluateMatch

MatchSpec == InitMatch /\ [][NextMatch]_vars

\* ------------------------------------------------------------- properties
\* a log entry written by an adjudication (a skip writes the sentinel answer)
IsAdjudication(e) == e.userAnswer # <<"SKIPPED">>
IsMiss(e) == IsAdjudication(e) /\ ~e.isCorrect

\* this step appends exactly one entry to the game log
Appended ==
  /\ Len(gameLog') = Len(gameLog) + 1
  /\ SubSeq(gameLog', 1, Len(gameLog)) = gameLog
NewEntry == gameLog'[Len(gameLog')]

\* the word on display
HasCurrentWord == Mounted /\ HasAt(shuffledWords, currentWordIndex)
CurrentWord == At(shuffledWords, currentWordIndex)

\* the positions of the incorrect adjudications of w in the log of this game
Misses(w) == {i \in DOMAIN gameLog : gameLog[i].word = w /\ IsMiss(gameLog[i])}

\* this step advances the game from the word on display: the index moves by
\* one, or the game ends if the word was the last of the shuffled list
Advances ==
  IF currentWordIndex + 1 < Len(shuffledWords)
  THEN currentWordIndex' = currentWordIndex + 1 /\ gameActive' /\ ~gameOver'
  ELSE ~gameActive' /\ gameOver'

\* C1: the callbacks of one recognition session (one recognizer, from its
\* onstart on) invoke onResult at most once, whatever the order of its
\* interim results, final results, silence timer, onend and onerror.
C1_OncePerSession == \A r \in Recognizers : onResultCalls[r] <= 1

\* C2: when a final result of a session directly follows a final result of
\* the same session, the second one appends no log entry, changes no attempt
\* counter and does not move the current word index.
C2_DuplicateFinal ==
  [][(lastFinal # 0 /\ lastFinal' = lastFinal)
       => UNCHANGED <<gameLog, incorrectAttempts, currentWordIndex>>]_vars

\* C3: a result handed to handleSpeechResult while isProcessingAttemptRef is
\* set is dropped: gameLog, incorrectAttempts, usedWords and currentWordIndex
\* are unchanged by that step.
C3_InFlightDrops ==
  [][(isProcessingAttemptRef /\ onResultCalls' # onResultCalls)
       => UNCHANGED <<gameLog, incorrectAttempts, usedWords, currentWordIndex>>]_vars

\* a result was handed over while the settle timer of the only logged
\* attempt of the first game was pending, and the log still has one entry
C3_Witness ==
  /\ games = 1 /\ skips = 0
  /\ isProcessingAttemptRef /\ unlockPending
  /\ onResultCalls[1] + onResultCalls[2] = 2
  /\ Len(gameLog) = 1 /\ IsMiss(gameLog[1])

\* C4: isProcessingAttemptRef is never left set for good: whenever it is set
\* between two events, the settle timer that clears it is pending (the only
\* other place that clears it is the handler that set it).
C4_RefCleared == isProcessingAttemptRef => unlockPending

\* C5: a step that logs a correct answer for the word on display appends one
\* entry, puts the word in usedWords, leaves the word without an attempt
\* counter, and moves the index by one or ends the game on the last word.
C5_Correct ==
  [][(Appended /\ NewEntry.isCorrect /\ HasCurrentWord /\ NewEntry.word = CurrentWord)
       => /\ NewEntry.word \in usedWords'
          /\ Get(incorrectAttempts', NewEntry.word) = 0
          /\ Advances]_vars

\* C6: a step that logs an incorrect answer for the word on display, when the
\* log of this game holds no earlier miss of that word, sets the word's
\* counter to 1, logs attemptNumber 1, and leaves currentWordIndex and
\* usedWords alone.
C6_FirstMiss ==
  [][(Appended /\ IsMiss(NewEntry) /\ HasCurrentWord /\ NewEntry.word = CurrentWord
        /\ Misses(NewEntry.word) = {})
       => /\ Get(incorrectAttempts', NewEntry.word) = 1
          /\ NewEntry.attemptNumber = 1
          /\ currentWordIndex' = currentWordIndex
          /\ usedWords' = usedWords]_vars

\* C7: once the log of a game holds two incorrect adjudications of a word,
\* the second has attemptNumber 2, no later entry is logged against the word,
\* and the word is no longer on display.
C7_TwoMisses ==
  \A w \in WordSet :
    \A i, j \in Misses(w) :
      (i < j /\ ~\E k \in Misses(w) : k < j /\ k # i)
        => /\ gameLog[j].attemptNumber = 2
           /\ \A k \in DOMAIN gameLog : k > j => gameLog[k].word # w
           /\ ~(HasCurrentWord /\ CurrentWord = w)

\* C8: the attempt counter of every word is absent, 1 or 2.
C8_CounterAtMostTwo ==
  \A w \in DOMAIN incorrectAttempts : incorrectAttempts[w] \in {1, 2}

\* a word's counter has reached the cap
C8_Witness == \E w \in DOMAIN incorrectAttempts : incorrectAttempts[w] = 2

\* C9: every log entry has attemptNumber 1 or 2, and the attemptNumber of an
\* adjudicated entry is one more than the number of incorrect adjudications
\* of its word logged before it in the same game.
C9_AttemptNumbers ==
  \A i \in DOMAIN gameLog :
    /\ gameLog[i].attemptNumber \in {1, 2}
    /\ IsAdjudication(gameLog[i])
         => gameLog[i].attemptNumber
              = 1 + Cardinality({k \in Misses(gameLog[i].word) : k < i})

\* C10: a press of Skip in an active game appends one SKIPPED entry with
\* isCorrect false for the word on display, puts the word in usedWords and
\* moves the index by one or ends the game on the last word; handleSkip
\* changes nothing when no game is active.
C10_Skip ==
  /\ [](~Mounted => handleSkip(Page) = Page)
  /\ [][(skips' # skips /\ HasCurrentWord)
          => /\ Appended
             /\ NewEntry.userAnswer = <<"SKIPPED">> /\ ~NewEntry.isCorrect
             /\ NewEntry.word = CurrentWord
             /\ CurrentWord \in usedWords'
             /\ Advances]_vars

\* C11: a retired word (a word in usedWords) has no attempt counter.
C11_RetiredNoCounter == \A w \in usedWords : Get(incorrectAttempts, w) = 0

\* C12: after a recognizer's error event no step invokes onResult for that
\* recognizer's session, whatever was buffered and also when onend follows
\* the error.
C12_ErrorAborts ==
  [][\A r \in Recognizers :
       rec[r].status = "errored" => onResultCalls'[r] = onResultCalls[r]]_vars

\* this step is a pure recognition failure: a Web Speech error event, a
\* recording found too short by onstop, or a recognition request that ends
\* without a call of onResult
RecognitionFails ==
  \E r \in Recognizers :
    \/ rec[r].status \in {"starting", "live"} /\ rec'[r].status = "errored"
    \/ rec[r].status = "stopped" /\ rec'[r].status = "ended"
    \/ /\ rec[r].status = "processing" /\ rec'[r].status = "ended"
       /\ onResultCalls'[r] = onResultCalls[r]

\* this step raises the attempt counter of some word
CounterRises ==
  \E w \in WordSet : Get(incorrectAttempts', w) > Get(incorrectAttempts, w)

\* C13 as stated: a pure recognition failure leaves currentWordIndex,
\* incorrectAttempts, usedWords and gameLog unchanged, and incorrectAttempts
\* changes only in a step that logs an incorrect adjudication.
C13_CounterChangesOnlyOnMiss ==
  [][/\ RecognitionFails =>
          UNCHANGED <<currentWordIndex, incorrectAttempts, usedWords, gameLog>>
     /\ incorrectAttempts' # incorrectAttempts => Appended /\ IsMiss(NewEntry)]_vars

\* C13, amended: a pure recognition failure leaves currentWordIndex,
\* incorrectAttempts, usedWords and gameLog unchanged, and an attempt counter
\* rises only in a step that logs an incorrect adjudication.
C13_FailureConsumesNothing ==
  [][/\ RecognitionFails =>
          UNCHANGED <<currentWordIndex, incorrectAttempts, usedWords, gameLog>>
     /\ CounterRises => Appended /\ IsMiss(NewEntry)]_vars

\* a recognizer has reported an error while the word on display had one miss
C13_Witness ==
  /\ HasCurrentWord
  /\ Get(incorrectAttempts, CurrentWord) = 1
  /\ \E r \in Recognizers : rec[r].status = "errored"

\* this step is the error event of recognizer r
Errors(r) == rec[r].status \in {"starting", "live"} /\ rec'[r].status = "errored"

\* this step is the onstart of recognizer r
Starts(r) == rec[r].status = "starting" /\ rec'[r].status = "live"

\* no other recognizer can still call back and no processTranscript is
\* waiting: r is the only session at work
Alone(r) ==
  /\ finallyPending = {}
  /\ \A q \in Recognizers \ {r} : rec[q].status \in {"none", "ended", "errored"}

\* this step delivers the first result of the live session r to the
\* component: its final result, or the expiry of the silence timer after its
\* single interim result
FirstResult(r) ==
  /\ rec[r].status = "live"
  /\ Alone(r)
  /\ \/ lastFinal' = r /\ rec[r].results = 0
     \/ lastTimer' = r /\ rec[r].results = 1

ExplicitStop ==
  /\ engine = "webSpeech"
  /\ Mounted /\ isListening /\ ~isProcessing /\ ~isListening'
  /\ lastFinal' = 0 /\ lastTimer' = 0
  /\ lastHeard' = NoInterim
  /\ skips' = skips /\ games' = games
  /\ finallyPending' = finallyPending /\ unlockPending' = unlockPending
  /\ \A r \in Recognizers :
       \/ rec'[r] = rec[r]
       \/ rec[r].status = "live" /\ rec'[r].status = "stopping"

\* C15: an explicit stop request during Listening discards the buffered
\* interim transcript and clears the pending silence timer, so that nothing
\* is left for a timer expiry or the recognizer's onend to adjudicate.
C15_StopDiscards ==
  [][ExplicitStop => lastInterim'[games] = << >> /\ interimTimeoutRef'[games] = 0]_vars

\* C16: the step that starts a game leaves the controller's in-flight guard
\* (isProcessingAttemptRef, isProcessingAttempt) clear and no silence timer
\* or buffered interim of an earlier game pending.
C16_StartGameClears ==
  [][games' = games + 1 =>
       /\ ~isProcessingAttemptRef' /\ ~isProcessingAttempt'
       /\ \A m \in Mounts : interimTimeoutRef'[m] = 0 /\ lastInterim'[m] = << >>]_vars

\* the word that the callbacks of recognizer r adjudicate against
ClosureHasWord(r) == HasAt(rec[r].snap.shuffledWords, rec[r].snap.currentWordIndex)
ClosureWord(r) == At(rec[r].snap.shuffledWords, rec[r].snap.currentWordIndex)

\* C17: sessions do not overlap, so no two recognizers of one mount have
\* both reported (had onResult invoked by their callbacks) for the same word
\* of the same shuffled list.
C17_OneReporterPerWord ==
  \A q, r \in Recognizers :
    /\ q # r /\ rec[q].mount = rec[r].mount
    /\ onResultCalls[q] > 0 /\ onResultCalls[r] > 0
    /\ ClosureHasWord(q) /\ ClosureHasWord(r)
    /\ rec[q].snap.shuffledWords = rec[r].snap.shuffledWords
    => ClosureWord(q) # ClosureWord(r)

\* this step delivers to recognizer r an interim result with a non-empty
\* transcript that the session guard lets through
HearsInterim(r) ==
  /\ lastHeard'.r = r
  /\ ~hasProcessedAnswer[rec[r].mount]
  /\ SortByConfidence(lastHeard'.raw)[1].transcript # << >>

\* this step is the expiry of the silence timer set by recognizer r, with no
\* other session at work
SilencePromotes(r) == lastTimer' = r /\ Alone(r)

\* C18: each non-empty interim result replaces the buffered transcript and
\* alternatives and sets the silence timer; when the timer fires the buffered
\* interim goes through processTranscript to onResult, and what is adjudicated
\* is the buffered transcript and the buffered alternatives.
C18_SilencePromotion ==
  [][\A r \in Recognizers :
       /\ HearsInterim(r) =>
            /\ lastAlternatives'[rec[r].mount] = SortByConfidence(lastHeard'.raw)
            /\ lastInterim'[rec[r].mount] = lastAlternatives'[rec[r].mount][1].transcript
            /\ interimTimeoutRef'[rec[r].mount] = r
       /\ SilencePromotes(r) =>
            /\ onResultCalls'[r] = onResultCalls[r] + 1
            /\ r \in finallyPending'
            /\ Appended =>
                 /\ NewEntry.userAnswer = lowerCaseWords(lastInterim[rec[r].mount])
                 /\ NewEntry.possibilities =
                      possibilitiesFor(variant, lastAlternatives[rec[r].mount])]_vars

\* the silence timer of a session that received two interim results has just
\* fired, and the log shows the transcript "cat" adjudicated for the word "to"
C18_Witness ==
  \E r \in Recognizers :
    /\ lastTimer = r /\ rec[r].results = 2 /\ onResultCalls[r] = 1
    /\ Len(gameLog) = 1
    /\ gameLog[1].word = "to" /\ gameLog[1].userAnswer = <<"cat">>

\* this step begins the session of recognizer (or recorder) r
SessionBegins(r) ==
  rec[r].status = "none" /\ rec'[r].status \in {"starting", "requesting"}

\* the session of q has returned to Idle: its processTranscript has run its
\* finally block and the component no longer holds q as its recognizer
ReturnedToIdle(q) ==
  /\ q \notin finallyPending
  /\ \A m \in Mounts : recognitionInstance[m] # q /\ mediaRecorderRef[m] # q

\* C19: a session that was adjudicated has returned to Idle (isListening
\* and isProcessing reset by the finally block, the handle released) before
\* a new session begins.
C19_IdleBeforeNewSession ==
  [][\A q, r \in Recognizers :
       SessionBegins(r) /\ onResultCalls[q] > 0 /\ rec[q].mount = games
         => ReturnedToIdle(q)]_vars

\* the two words belong to one homophone group, whatever their letter case
SameGroup(a, b) ==
  \E g \in 1..Len(HOMONYM_GROUPS) :
    /\ toLowerCase(a) \in Range(HOMONYM_GROUPS[g])
    /\ toLowerCase(b) \in Range(HOMONYM_GROUPS[g])

\* C20: areHomonyms(a, b) = areHomonyms(b, a) for every pair of words of one
\* homophone group (and for every other pair), and areHomonyms(a, a) is false
\* for every word a, in any letter case.
C20_Symmetric ==
  asked =>
    /\ homonymsAB = homonymsBA
    /\ wordA = wordB => ~homonymsAB
    /\ SameGroup(wordA, wordB) /\ toLowerCase(wordA) # toLowerCase(wordB) => homonymsAB

\* two words of one group in different letter cases have been compared, and
\* both calls answered true
C20_Witness ==
  /\ asked /\ wordA = "Too" /\ wordB = "two"
  /\ homonymsAB /\ homonymsBA

\* the groups of the table in which the case-folded word appears
GroupsOf(w) ==
  {g \in 1..Len(HOMONYM_GROUPS) : toLowerCase(w) \in Range(HOMONYM_GROUPS[g])}

\* C21: areHomonyms(a, b) is true exactly when the case-folded words differ
\* and share a group; a word of no group is homophonic with nothing.
C21_Contract ==
  asked =>
    /\ homonymsAB <=> /\ toLowerCase(wordA) # toLowerCase(wordB)
                      /\ GroupsOf(wordA) \cap GroupsOf(wordB) # {}
    /\ GroupsOf(wordA) = {} \/ GroupsOf(wordB) = {} => ~homonymsAB /\ ~homonymsBA

\* a word of no group has been compared with a grouped word, and the answer
\* is false in both orders
C21_Witness ==
  /\ asked /\ wordA = "cat" /\ wordB = "to"
  /\ ~homonymsAB /\ ~homonymsBA

\* C22: getHomonyms(word) is exactly the other spellings of the group of the
\* case-folded word, never the word itself, and empty for a word of no group.
C22_OtherSpellings ==
  asked =>
    /\ Range(homonymsOfA) =
         {w \in UNION {Range(HOMONYM_GROUPS[g]) : g \in GroupsOf(wordA)} :
            w # toLowerCase(wordA)}
    /\ Len(homonymsOfA) = Cardinality(Range(homonymsOfA))
    /\ GroupsOf(wordA) = {} => homonymsOfA = << >>

\* the homonyms of a word given in capitals have been looked up: the other
\* two spellings of its group, in the order of the table
C22_Witness ==
  asked /\ wordA = "TOO" /\ homonymsOfA = <<"to", "two">>

\* C23: every spelling is in at most one group, and HOMOPHONE_MAP maps each
\* grouped spelling to the first entry of its own group (and nothing else).
C23_Canonical ==
  asked =>
    /\ Cardinality(GroupsOf(wordA)) <= 1
    /\ \A g \in 1..Len(HOMONYM_GROUPS) :
         wordA \in Range(HOMONYM_GROUPS[g]) => canonicalOfA = <<HOMONYM_GROUPS[g][1]>>
    /\ (\A g \in 1..Len(HOMONYM_GROUPS) : wordA \notin Range(HOMONYM_GROUPS[g]))
         => canonicalOfA = << >>

\* a spelling that is not the first of its group has been looked up
C23_Witness ==
  asked /\ wordA = "they're" /\ canonicalOfA = <<"there">>

\* the word on display as the evaluation compares it, and the candidate words
\* that are homophones of it
MatchTargetWord ==
  IF variant = "once" THEN normalizeWord(matchTarget) ELSE toLowerCase(matchTarget)
MatchHomophones ==
  {w \in matchWords : w # MatchTargetWord /\ SameGroup(w, MatchTargetWord)}

\* C24: a candidate set that contains the exact normalized spelling of the
\* target is evaluated correct, whatever else it contains.
C24_ExactIsCorrect ==
  matched /\ MatchTargetWord \in matchWords => matchIsCorrect

\* the target is among the candidates together with a word that matches
\* nothing, and the result is correct
C24_Witness ==
  /\ matched /\ matchTarget = "to"
  /\ matchTranscript = <<"hat", "To">> /\ matchAlternatives = << >>
  /\ matchWords = {"hat", "to"} /\ matchIsCorrect

\* C25: a candidate set with a homophone of the target and without the
\* target's exact spelling is evaluated correct.
C25_HomophoneIsCorrect ==
  matched /\ MatchTargetWord \notin matchWords /\ MatchHomophones # {}
    => matchIsCorrect

\* target "to" and utterance "too": correct
C25_Witness ==
  /\ matched /\ matchTarget = "to"
  /\ matchTranscript = <<"Too">> /\ matchAlternatives = << >>
  /\ matchWords = {"too"} /\ matchIsCorrect

\* C26: a candidate set with neither the target nor a homophone of it is
\* evaluated incorrect.
C26_NeitherIsIncorrect ==
  matched /\ MatchTargetWord \notin matchWords /\ MatchHomophones = {}
    => ~matchIsCorrect

\* a word of the list that is not the target, and a word of no group, are the
\* candidates: incorrect
C26_Witness ==
  /\ matched /\ matchTarget = "cat"
  /\ matchWords = {"to", "hat"} /\ ~matchIsCorrect

\* the words of the alternatives, with letter case folded
AlternativeWords ==
  UNION {{toLowerCase(matchAlternatives[k].transcript[i]) :
            i \in DOMAIN matchAlternatives[k].transcript} :
         k \in DOMAIN matchAlternatives}

\* C27: a result is correct whenever a word of an alternative, of any rank
\* and any confidence, is the target or a homophone of it, whatever the
\* primary transcript.
C27_AnyAlternativeCounts ==
  matched /\ (\E w \in AlternativeWords :
                w = MatchTargetWord \/ SameGroup(w, MatchTargetWord))
    => matchIsCorrect

\* the only match is a homophone in the second alternative, whose confidence
\* of 0.1 keeps it out of the logged possibilities: correct
C27_Witness ==
  /\ matched /\ matchTarget = "to"
  /\ matchTranscript = <<"hat">>
  /\ matchAlternatives = <<[transcript |-> <<"hat">>, confidence |-> 90],
                           [transcript |-> <<"Too">>, confidence |-> 10]>>
  /\ Len(matchPossibilities) = 1
  /\ matchIsCorrect

\* every token of the transcript and of the alternatives
MatchTokens ==
  Range(matchTranscript)
    \cup UNION {Range(matchAlternatives[k].transcript) : k \in DOMAIN matchAlternatives}

\* C28: the candidate set is the set of all tokens of the transcript and of
\* the alternatives, lower-cased and stripped of punctuation; an utterance
\* that differs from the target by letter case or attached punctuation only
\* is correct.
C28_NormalizedCandidates ==
  matched =>
    /\ matchWords = {stripPunctuation(toLowerCase(t)) : t \in MatchTokens}
    /\ (\E t \in MatchTokens : stripPunctuation(toLowerCase(t)) = matchTarget)
         => matchIsCorrect

\* this step passes a result of recognizer r to onResult
Reports(r) == onResultCalls'[r] = onResultCalls[r] + 1

\* handleSpeechResult drops the result of recognizer r: the in-flight guard is
\* set, or the handler sees no active game, no current word, or a word that
\* already has two misses
Dropped(r) ==
  LET s == rec[r].snap
  IN \/ ~s.gameActive \/ s.gameOver
     \/ isProcessingAttemptRef \/ s.isProcessingAttempt
     \/ ~HasAt(s.shuffledWords, s.currentWordIndex)
     \/ Get(s.incorrectAttempts, At(s.shuffledWords, s.currentWordIndex)) >= 2

C30_FrozenAfterGameOver ==
  [][/\ games' = games + 1 => gameLog' = << >>
     /\ (gameOver /\ ~gameActive /\ games' = games)
          => UNCHANGED <<gameLog, incorrectAttempts, usedWords, currentWordIndex>>]_vars

\* the list is a permutation of the fixed word list
IsPermutationOfWords(q) ==
  Len(q) = Len(words) /\ Range(q) = WordSet

\* this step stays inside one running game
WithinGame == Mounted /\ gameActive' /\ ~gameOver' /\ games' = games

\* C31: the list built at game start is a permutation of the word list, it
\* does not change while the game runs, and the index only moves forward by
\* one, so every word is the current word exactly once per game.
C31_OrderFixedPerGame ==
  [][/\ games' = games + 1 => IsPermutationOfWords(shuffledWords')
     /\ WithinGame =>
          /\ shuffledWords' = shuffledWords
          /\ currentWordIndex' \in {currentWordIndex, currentWordIndex + 1}]_vars

\* this step retires the word on display: a correct answer, a second miss or
\* a skip is logged against it
Retires ==
  /\ HasCurrentWord /\ Appended /\ NewEntry.word = CurrentWord
  /\ \/ NewEntry.isCorrect
     \/ ~IsAdjudication(NewEntry)
     \/ NewEntry.attemptNumber = 2

\* the word on display is the last of the shuffled list
OnLastWord == HasCurrentWord /\ currentWordIndex = Len(shuffledWords) - 1

\* C32: the game ends exactly when the last word of the shuffled list is
\* retired, and while the game is active currentWordIndex selects a word of
\* the shuffled list.
C32_EndsOnLastWord ==
  /\ [](Mounted => HasAt(shuffledWords, currentWordIndex))
  /\ [][/\ (Retires /\ OnLastWord) => gameOver' /\ ~gameActive'
        /\ (~gameOver /\ gameOver') => Retires /\ OnLastWord]_vars

\* the handler of recognizer r gets past its guards and finds no current word
FindsNoWord(r) ==
  /\ Reports(r)
  /\ rec[r].snap.gameActive /\ ~rec[r].snap.gameOver
  /\ ~isProcessingAttemptRef /\ ~rec[r].snap.isProcessingAttempt
  /\ ~ClosureHasWord(r)

\* C33: a result that arrives when the handler has no current word is
\* dropped: the log, the counters, the index and the game are unchanged and
\* the in-flight guard is released.
C33_NoCurrentWordDropped ==
  [][\A r \in Recognizers :
       FindsNoWord(r) =>
         /\ UNCHANGED <<gameLog, incorrectAttempts, currentWordIndex, usedWords,
                        shuffledWords, gameActive, gameOver, unlockPending>>
         /\ ~isProcessingAttemptRef' /\ ~isProcessingAttempt']_vars

\* the recording component's handler is that of the render that mounted it,
\* in which the list was not shuffled yet; it has been given one result, the
\* log is empty and the guard is clear
C33_Witness ==
  /\ games = 1 /\ Mounted
  /\ mountRender[1].gameActive /\ mountRender[1].shuffledWords = << >>
  /\ \E r \in Recognizers : onResultCalls[r] = 1
  /\ \A r \in Recognizers : onResultCalls[r] <= 1 /\ rec[r].status \in {"none", "ended"}
  /\ gameLog = << >> /\ skips = 0
  /\ ~isProcessingAttemptRef /\ ~isProcessingAttempt

\* the component instances whose silence timer is pending
PendingTimers == {m \in Mounts : interimTimeoutRef[m] # 0}

\* no session is listening: no recognizer is live
NoSessionListening == \A r \in Recognizers : rec[r].status # "live"

\* this step is the onend of recognizer r
Ends(r) ==
  rec[r].status \in {"live", "stopping", "closing", "errored"} /\ rec'[r].status = "ended"

\* this step tears the component down
TearsDown == Mounted /\ ~(gameActive' /\ ~gameOver') /\ games' = games

\* C34: at most one silence timer is pending; a new interim result replaces
\* the pending timer; a final result, a recognizer end or error, an explicit
\* stop and the teardown of the component leave no timer pending; and no
\* timer is pending when no session is listening.
C34_TimerTiedToSession ==
  /\ [](Cardinality(PendingTimers) <= 1)
  /\ [](NoSessionListening => PendingTimers = {})
  /\ [][/\ \A r \in Recognizers :
             /\ HearsInterim(r) => interimTimeoutRef'[rec[r].mount] = r
             /\ (lastFinal' = r \/ Ends(r) \/ Errors(r))
                  => interimTimeoutRef'[rec[r].mount] = 0
        /\ (ExplicitStop \/ TearsDown) => interimTimeoutRef'[games] = 0]_vars

\* a session that had buffered an interim result was stopped before its
\* silence timer fired: the interim is still buffered, nothing was reported,
\* no session is listening and no timer is pending
C34_Witness ==
  /\ \E r \in Recognizers :
       /\ rec[r].status = "stopping" /\ rec[r].results = 1
       /\ lastInterim[rec[r].mount] # << >>
       /\ onResultCalls[r] = 0
  /\ NoSessionListening /\ PendingTimers = {}

\* this step passes to onResult a transcript that recognizer r captured
\* itself: its final result, the expiry of its silence timer, or the answer
\* of the service to its recording
ReportsOwn(r) ==
  /\ Reports(r)
  /\ engine = "azure" \/ lastFinal' = r \/ lastTimer' = r

\* the word on display is no longer the one that was on display when
\* recognizer r began to listen: that word was retired, or its game is over
WordChanged(r) ==
  rec[r].mount # games \/ ShownWord # rec[r].shown

\* C35: a result is adjudicated only against the word that was on display
\* when its session began to listen; and when that word has been retired in
\* the meantime, the result is not logged against, and consumes no attempt
\* of, the word now on display.
C35_NoStaleJudgement ==
  [][\A r \in Recognizers :
       ReportsOwn(r) =>
         /\ Appended => NewEntry.word = rec[r].shown
         /\ (WordChanged(r) /\ HasCurrentWord) =>
              /\ ~(Appended /\ NewEntry.word = CurrentWord)
              /\ Get(incorrectAttempts', CurrentWord) <= Get(incorrectAttempts, CurrentWord)]_vars

\* recognizer q was replaced by the session of r, which is listening: r was
\* created after q by the same component instance
ReplacedBy(q, r) ==
  /\ q < r /\ rec[q].mount = rec[r].mount
  /\ rec[q].status # "none" /\ rec[r].status = "live"

\* C36: an onend or onerror of a recognizer that was replaced leaves the
\* session guard, the silence timer, the buffered interim and the recognizer
\* handle of the session that replaced it as they are.
C36_OldEventsHarmless ==
  [][\A q, r \in Recognizers :
       (ReplacedBy(q, r) /\ (Ends(q) \/ Errors(q))) =>
          LET m == rec[r].mount
          IN /\ hasProcessedAnswer'[m] = hasProcessedAnswer[m]
             /\ interimTimeoutRef'[m] = interimTimeoutRef[m]
             /\ lastInterim'[m] = lastInterim[m]
             /\ lastAlternatives'[m] = lastAlternatives[m]
             /\ recognitionInstance'[m] = recognitionInstance[m]]_vars

\* the session of r has a non-empty interim buffered and has neither been
\* adjudicated nor failed
HoldsInterim(r) ==
  /\ lastInterim[rec[r].mount] # << >>
  /\ onResultCalls[r] = 0 /\ rec[r].status # "errored"

\* C37: the onend of a session that holds a buffered interim and was not
\* adjudicated passes the interim to onResult, once, and empties the buffer;
\* the onend of any other session passes nothing to onResult; in both cases
\* the recognizer handle is released.
C37_OnendPromotesOnce ==
  [][\A r \in Recognizers :
       Ends(r) =>
         /\ IF HoldsInterim(r)
            THEN Reports(r) /\ lastInterim'[rec[r].mount] = << >>
            ELSE onResultCalls' = onResultCalls /\ gameLog' = gameLog
         /\ recognitionInstance'[rec[r].mount] = 0]_vars

\* the positions of the log entries of word w
EntriesOf(w) == {i \in DOMAIN gameLog : gameLog[i].word = w}

\* the entry closes its word: a correct answer, a second attempt or a skip
Closes(e) == e.isCorrect \/ e.attemptNumber = 2 \/ ~IsAdjudication(e)

\* C38: in the log of a game every word has at most two entries and at most
\* one correct entry, no entry of a word follows the word's correct entry,
\* attempt-2 entry or SKIPPED entry, and the number of correct entries does
\* not exceed the number of words.
C38_LogPerWord ==
  /\ \A w \in WordSet :
       /\ Cardinality(EntriesOf(w)) <= 2
       /\ Cardinality({i \in EntriesOf(w) : gameLog[i].isCorrect}) <= 1
       /\ \A i, j \in EntriesOf(w) : i < j => ~Closes(gameLog[i])
  /\ Cardinality({i \in DOMAIN gameLog : gameLog[i].isCorrect}) <= Len(words)

\* C39: in the shuffle-once controller, while a game is active usedWords is
\* the set of words before currentWordIndex in the shuffled list; the index
\* never decreases and grows by exactly one on each retirement.
C39_UsedWordsArePrefix ==
  /\ []((variant = "once" /\ Mounted) =>
          /\ currentWordIndex <= Len(shuffledWords)
          /\ usedWords = {shuffledWords[i] : i \in 1..currentWordIndex})
  /\ [][(variant = "once" /\ WithinGame) =>
          /\ currentWordIndex' \in {currentWordIndex, currentWordIndex + 1}
          /\ Retires => currentWordIndex' = currentWordIndex + 1]_vars

\* this step takes the word on display out of play: the word joins usedWords
\* or the game ends
RetiresCurrent ==
  \/ CurrentWord \notin usedWords /\ CurrentWord \in usedWords'
  \/ gameOver'

\* this step raises the attempt counter of the word on display
RaisesCurrent ==
  Get(incorrectAttempts', CurrentWord) > Get(incorrectAttempts, CurrentWord)

\* C40: with N words in the list an active game has logged fewer than 2N
\* adjudications and skips, and every adjudication or skip accepted while the
\* game is active retires the current word or raises its attempt counter.
C40_BoundedProgress ==
  /\ [](Mounted => Len(gameLog) < 2 * Len(words))
  /\ [][(HasCurrentWord /\ Appended) => (RetiresCurrent \/ RaisesCurrent)]_vars

=============================================================================
